---- MODULE Spec2Model ----
(***************************************************************************)
(* Model of the bank-account program in src/main.rs: the NEXT_ID counter,  *)
(* BankAccount::new / deposit / withdraw, and BankAccount::transfer over   *)
(* Arc<Mutex<BankAccount>> handles, run by several threads.                *)
(*                                                                         *)
(* A handle is identified by the address of its Arc allocation             *)
(* (Arc::as_ptr); addresses are the numbers 1..NumSlots, and the allocator *)
(* may hand out any free one.  Balances are f64 in the source; the model   *)
(* uses small integers, on which f64 +, - and >= are exact.                *)
(***************************************************************************)
EXTENDS Integers, FiniteSets, Sequences, TLC

\* ---- bounds -------------------------------------------------------------
NumThreads == 2
NumSlots == 2
MaxBal == 2
MaxAmount == 1
MaxCalls == 1
MaxWithdraw == 2
MaxOps == 3
MaxIter == 3

\* ---- program constants --------------------------------------------------
DepositAmount == 100
WithdrawAmount == 50

Threads == 1..NumThreads
Slots == 1..NumSlots
InitBals == 0..MaxBal
Amounts == 1..MaxAmount
Withdrawals == 1..MaxWithdraw
NoThread == 0

VARIABLES
    NEXT_ID,          \* static NEXT_ID: AtomicUsize
    handles,          \* addresses of the Arc<Mutex<BankAccount>> built so far
    account_id,       \* BankAccount.account_id, per handle
    account_balance,  \* BankAccount.account_balance, per handle
    init_bal,         \* the init_bal argument each account was built with
    holder,           \* Mutex state: the thread owning the guard, or NoThread
    poisoned,         \* Mutex poison flag
    pc,               \* each thread's position
    id,               \* local `id` of BankAccount::new
    args,             \* (sender, receiver, amount) of the running transfer
    acc_first_lock,   \* local: result of t_first.try_lock()
    acc_second_lock,  \* local: result of t_second.try_lock()
    entry,            \* balances of sender and receiver when both locks were taken
    out,              \* messages printed by the thread's current call
    ncalls,           \* calls started by each thread
    wargs,            \* worker closure: the shared account and the two amounts
    main_pc,          \* main / high_load_stress_test: position of the spawning thread
    iter,             \* main: iterations of the spawn loop completed
    join_handles,     \* main: `handles`, the JoinHandles pushed and not yet drained
    oplog             \* deposit and withdraw calls made directly on an account

vars == <<NEXT_ID, handles, account_id, account_balance, init_bal, holder,
          poisoned, pc, id, args, acc_first_lock, acc_second_lock, entry,
          out, ncalls, wargs, main_pc, iter, join_handles, oplog>>

mainVars == <<main_pc, iter, join_handles, oplog>>
acctVars == <<handles, account_id, account_balance, init_bal>>
lockVars == <<holder, poisoned>>
localVars == <<id, args, acc_first_lock, acc_second_lock, entry, out, ncalls, wargs>>

NoArgs == [sender |-> 0, receiver |-> 0, amount |-> 0]
NoEntry == [sender |-> 0, receiver |-> 0]
NoWork == [account |-> 0, dep |-> 0, wd |-> 0]

\* ---- pure parts of the code --------------------------------------------

\* AtomicUsize::fetch_add: the new counter value (the old one is returned).
\* usize wrap-around is out of reach: at most NumSlots accounts are built.
fetch_add(cur, val) == cur + val

\* Arc::as_ptr: the handle's storage address.
as_ptr(h) == h

\* A mutant of t_first: the caller's order, no canonicalisation.
t_first_sender(s, r) == s

\* transfer, lines 50-54: the handle with the lower address, ties to receiver.
t_first(s, r) == IF as_ptr(s) < as_ptr(r) THEN s ELSE r

t_second(s, r) == IF as_ptr(s) < as_ptr(r) THEN r ELSE s

\* A mutant of withdraw: > in place of >=, the whole balance cannot be taken.
withdraw_strict(bal, amnt) == IF bal > amnt THEN bal - amnt ELSE bal

\* A mutant of withdraw: the funds check is missing.
withdraw_unchecked(bal, amnt) == bal - amnt

\* A mutant of deposit: the amount is not credited.
deposit_dropped(bal, amnt) == bal

\* BankAccount::deposit: the new balance.
deposit(bal, amnt) == bal + amnt

\* BankAccount::withdraw: the new balance.
withdraw(bal, amnt) == IF bal >= amnt THEN bal - amnt ELSE bal

\* A mutant of try_lock: the poison flag is not looked at.
try_lock_ignoring_poison(h) ==
    IF holder[h] # NoThread THEN "WouldBlock" ELSE "Ok"

\* Mutex::try_lock as seen by the caller: never blocks.
try_lock(h) ==
    IF holder[h] # NoThread THEN "WouldBlock"
    ELSE IF poisoned[h] THEN "Poisoned"
    ELSE "Ok"

\* A mutant of GuardsDropped: unwinding leaks the guards (mem::forget).
GuardsLeaked(t) == holder

\* Dropping every MutexGuard thread t owns (scope end or unwinding).
GuardsDropped(t) == [h \in Slots |-> IF holder[h] = t THEN NoThread ELSE holder[h]]

\* MutexGuard::drop while the thread is panicking sets the poison flag.
PoisonedByPanic(t) == [h \in Slots |-> poisoned[h] \/ holder[h] = t]

First(t) == t_first(args[t].sender, args[t].receiver)
Second(t) == t_second(args[t].sender, args[t].receiver)

\* ---- initial states -----------------------------------------------------

\* Program start: no account has been constructed, NEXT_ID is 0 (line 8).
InitNew ==
    /\ NEXT_ID = 0
    /\ handles = {}
    /\ account_id = [h \in Slots |-> 0]
    /\ account_balance = [h \in Slots |-> 0]
    /\ init_bal = [h \in Slots |-> 0]
    /\ holder = [h \in Slots |-> NoThread]
    /\ poisoned = [h \in Slots |-> FALSE]
    /\ pc = [t \in Threads |-> "idle"]
    /\ id = [t \in Threads |-> 0]
    /\ args = [t \in Threads |-> NoArgs]
    /\ acc_first_lock = [t \in Threads |-> "none"]
    /\ acc_second_lock = [t \in Threads |-> "none"]
    /\ entry = [t \in Threads |-> NoEntry]
    /\ out = [t \in Threads |-> {}]
    /\ ncalls = [t \in Threads |-> 0]
    /\ wargs = [t \in Threads |-> NoWork]
    /\ main_pc = "none"
    /\ iter = 0
    /\ join_handles = {}
    /\ oplog = <<>>

\* After construction: every slot holds an account built by
\* Arc::new(Mutex::new(BankAccount::new(name, b))) with some balance b, the
\* mutexes are free and unpoisoned, and no call is running.
Init ==
    /\ NEXT_ID = NumSlots
    /\ handles = Slots
    /\ account_id = [h \in Slots |-> h - 1]
    /\ init_bal \in [Slots -> InitBals]
    /\ account_balance = init_bal
    /\ holder = [h \in Slots |-> NoThread]
    /\ poisoned = [h \in Slots |-> FALSE]
    /\ pc = [t \in Threads |-> "idle"]
    /\ id = [t \in Threads |-> 0]
    /\ args = [t \in Threads |-> NoArgs]
    /\ acc_first_lock = [t \in Threads |-> "none"]
    /\ acc_second_lock = [t \in Threads |-> "none"]
    /\ entry = [t \in Threads |-> NoEntry]
    /\ out = [t \in Threads |-> {}]
    /\ ncalls = [t \in Threads |-> 0]
    /\ wargs = [t \in Threads |-> NoWork]
    /\ main_pc = "none"
    /\ iter = 0
    /\ join_handles = {}
    /\ oplog = <<>>

\* ---- BankAccount::new ---------------------------------------------------

\* A mutant of NewFetchAdd: a load and a later store in place of fetch_add.
NewLoadThenStore(t) ==
    /\ \/ /\ pc[t] = "idle"
          /\ Cardinality(handles)
                + Cardinality({u \in Threads : pc[u] \in {"new_store", "new"}}) < NumSlots
          /\ id' = [id EXCEPT ![t] = NEXT_ID]
          /\ NEXT_ID' = NEXT_ID
          /\ pc' = [pc EXCEPT ![t] = "new_store"]
       \/ /\ pc[t] = "new_store"
          /\ id' = id
          /\ NEXT_ID' = id[t] + 1
          /\ pc' = [pc EXCEPT ![t] = "new"]
    /\ UNCHANGED <<mainVars, acctVars, lockVars, args, acc_first_lock, acc_second_lock,
                   entry, out, ncalls, wargs>>

\* line 18: let id = NEXT_ID.fetch_add(1, Relaxed), one indivisible step.
NewFetchAdd(t) ==
    /\ pc[t] = "idle"
    /\ Cardinality(handles) + Cardinality({u \in Threads : pc[u] = "new"}) < NumSlots
    /\ id' = [id EXCEPT ![t] = NEXT_ID]
    /\ NEXT_ID' = fetch_add(NEXT_ID, 1)
    /\ pc' = [pc EXCEPT ![t] = "new"]
    /\ UNCHANGED <<mainVars, acctVars, lockVars, args, acc_first_lock, acc_second_lock,
                   entry, out, ncalls, wargs>>

\* lines 19-23 and Arc::new(Mutex::new(..)): the record is built at a free
\* address with the id fetched before.
NewBuild(t) ==
    /\ pc[t] = "new"
    /\ \E h \in Slots \ handles, b \in InitBals :
        /\ handles' = handles \cup {h}
        /\ account_id' = [account_id EXCEPT ![h] = id[t]]
        /\ account_balance' = [account_balance EXCEPT ![h] = b]
        /\ init_bal' = [init_bal EXCEPT ![h] = b]
    /\ pc' = [pc EXCEPT ![t] = "idle"]
    /\ id' = [id EXCEPT ![t] = 0]
    /\ UNCHANGED <<mainVars, NEXT_ID, lockVars, args, acc_first_lock, acc_second_lock,
                   entry, out, ncalls, wargs>>

\* ---- BankAccount::transfer ----------------------------------------------

\* line 48: the call, with its arguments.
TransferCall(t) ==
    /\ pc[t] = "idle"
    /\ ncalls[t] < MaxCalls
    /\ \E s \in handles, r \in handles, a \in Amounts :
        args' = [args EXCEPT ![t] = [sender |-> s, receiver |-> r, amount |-> a]]
    /\ ncalls' = [ncalls EXCEPT ![t] = @ + 1]
    /\ pc' = [pc EXCEPT ![t] = "try_first"]
    /\ UNCHANGED <<mainVars, NEXT_ID, acctVars, lockVars, id, acc_first_lock,
                   acc_second_lock, entry, out, wargs>>

\* A mutant of TryLockFirst: the amount is taken from acc_first as soon as
\* its guard is held, before the second lock is tried.
TryLockFirstEager(t) ==
    /\ pc[t] = "try_first"
    /\ LET r == try_lock(First(t)) IN
        /\ acc_first_lock' = [acc_first_lock EXCEPT ![t] = r]
        /\ holder' = IF r = "WouldBlock" THEN holder
                     ELSE [holder EXCEPT ![First(t)] = t]
        /\ out' = [out EXCEPT ![t] = IF r = "Ok" THEN @ ELSE @ \cup {"warn_first"}]
        /\ pc' = [pc EXCEPT ![t] = IF r = "Ok" THEN "try_second" ELSE "unwrap_first"]
        /\ account_balance' =
              IF r = "Ok"
              THEN [account_balance EXCEPT ![First(t)] = withdraw(@, args[t].amount)]
              ELSE account_balance
    /\ UNCHANGED <<mainVars, NEXT_ID, handles, account_id, init_bal, poisoned, id,
                   args, acc_second_lock, entry, ncalls, wargs>>

\* lines 56-61: t_first.try_lock().  Ok: unwrap() yields the guard and the
\* thread sleeps.  Err: the warning is printed and unwrap() is next; a
\* Poisoned error carries the guard, so the mutex is owned meanwhile.
TryLockFirst(t) ==
    /\ pc[t] = "try_first"
    /\ LET r == try_lock(First(t)) IN
        /\ acc_first_lock' = [acc_first_lock EXCEPT ![t] = r]
        /\ holder' = IF r = "WouldBlock" THEN holder
                     ELSE [holder EXCEPT ![First(t)] = t]
        /\ out' = [out EXCEPT ![t] = IF r = "Ok" THEN @ ELSE @ \cup {"warn_first"}]
        /\ pc' = [pc EXCEPT ![t] = IF r = "Ok" THEN "try_second" ELSE "unwrap_first"]
    /\ UNCHANGED <<mainVars, NEXT_ID, acctVars, poisoned, id, args, acc_second_lock,
                   entry, ncalls, wargs>>

\* The locals of the call die with it.
LocalsGone(t) ==
    /\ acc_first_lock' = [acc_first_lock EXCEPT ![t] = "none"]
    /\ acc_second_lock' = [acc_second_lock EXCEPT ![t] = "none"]
    /\ entry' = [entry EXCEPT ![t] = NoEntry]
    /\ out' = [out EXCEPT ![t] = {}]

\* The panic of unwrap() on an Err: the stack unwinds, every guard the thread
\* owns is dropped while panicking, which poisons its mutex, and the thread
\* is gone.
Panic(t) ==
    /\ poisoned' = PoisonedByPanic(t)
    /\ holder' = GuardsDropped(t)
    /\ pc' = [pc EXCEPT ![t] = "panicked"]
    /\ LocalsGone(t)
    /\ UNCHANGED <<mainVars, NEXT_ID, acctVars, id, args, ncalls, wargs>>

\* line 60: acc_first_lock.unwrap() on an Err.
UnwrapFirst(t) ==
    /\ pc[t] = "unwrap_first"
    /\ Panic(t)

\* A mutant of TryLockSecond: after the warning the call goes on as if the
\* lock had been taken.
TryLockSecondWarnOnly(t) ==
    /\ pc[t] = "try_second"
    /\ LET r == try_lock(Second(t)) IN
        /\ acc_second_lock' = [acc_second_lock EXCEPT ![t] = r]
        /\ holder' = IF r = "WouldBlock" THEN holder
                     ELSE [holder EXCEPT ![Second(t)] = t]
        /\ out' = [out EXCEPT ![t] = IF r = "Ok" THEN @ ELSE @ \cup {"warn_second"}]
    /\ entry' = [entry EXCEPT ![t] =
                    [sender |-> account_balance[args[t].sender],
                     receiver |-> account_balance[args[t].receiver]]]
    /\ pc' = [pc EXCEPT ![t] = "check"]
    /\ UNCHANGED <<mainVars, NEXT_ID, acctVars, poisoned, id, args, acc_first_lock,
                   ncalls, wargs>>

\* A mutant of TryLockSecond: a blocking lock() in place of try_lock().
LockSecondBlocking(t) ==
    /\ pc[t] = "try_second"
    /\ holder[Second(t)] = NoThread
    /\ ~poisoned[Second(t)]
    /\ acc_second_lock' = [acc_second_lock EXCEPT ![t] = "Ok"]
    /\ holder' = [holder EXCEPT ![Second(t)] = t]
    /\ entry' = [entry EXCEPT ![t] =
                    [sender |-> account_balance[args[t].sender],
                     receiver |-> account_balance[args[t].receiver]]]
    /\ pc' = [pc EXCEPT ![t] = "check"]
    /\ UNCHANGED <<mainVars, NEXT_ID, acctVars, poisoned, id, args, acc_first_lock, out, ncalls, wargs>>

\* lines 63-67: t_second.try_lock(), as for the first lock.
TryLockSecond(t) ==
    /\ pc[t] = "try_second"
    /\ LET r == try_lock(Second(t)) IN
        /\ acc_second_lock' = [acc_second_lock EXCEPT ![t] = r]
        /\ holder' = IF r = "WouldBlock" THEN holder
                     ELSE [holder EXCEPT ![Second(t)] = t]
        /\ out' = [out EXCEPT ![t] = IF r = "Ok" THEN @ ELSE @ \cup {"warn_second"}]
        /\ entry' = [entry EXCEPT ![t] =
                        IF r = "Ok"
                        THEN [sender |-> account_balance[args[t].sender],
                              receiver |-> account_balance[args[t].receiver]]
                        ELSE @]
        /\ pc' = [pc EXCEPT ![t] = IF r = "Ok" THEN "check" ELSE "unwrap_second"]
    /\ UNCHANGED <<mainVars, NEXT_ID, acctVars, poisoned, id, args, acc_first_lock, ncalls, wargs>>

\* line 67: acc_second_lock.unwrap() on an Err.
UnwrapSecond(t) ==
    /\ pc[t] = "unwrap_second"
    /\ Panic(t)

\* A mutant of CheckWithdraw: the funds check and the debit are on the sender.
CheckWithdrawSender(t) ==
    /\ pc[t] = "check"
    /\ IF account_balance[args[t].sender] >= args[t].amount
       THEN /\ account_balance' = [account_balance EXCEPT
                                      ![args[t].sender] = withdraw(@, args[t].amount)]
            /\ pc' = [pc EXCEPT ![t] = "deposit"]
            /\ out' = out
       ELSE /\ account_balance' = account_balance
            /\ pc' = [pc EXCEPT ![t] = "drop"]
            /\ out' = [out EXCEPT ![t] = @ \cup {"insufficient"}]
    /\ UNCHANGED <<mainVars, NEXT_ID, handles, account_id, init_bal, lockVars, id, args,
                   acc_first_lock, acc_second_lock, entry, ncalls, wargs>>

\* A mutant of CheckWithdraw: the first guard is given up once the amount is
\* withdrawn, before the deposit.
CheckWithdrawUnlock(t) ==
    /\ pc[t] = "check"
    /\ IF account_balance[First(t)] >= args[t].amount
       THEN /\ account_balance' = [account_balance EXCEPT
                                      ![First(t)] = withdraw(@, args[t].amount)]
            /\ holder' = [holder EXCEPT ![First(t)] = NoThread]
            /\ pc' = [pc EXCEPT ![t] = "deposit"]
            /\ out' = out
       ELSE /\ account_balance' = account_balance
            /\ holder' = holder
            /\ pc' = [pc EXCEPT ![t] = "drop"]
            /\ out' = [out EXCEPT ![t] = @ \cup {"insufficient"}]
    /\ UNCHANGED <<mainVars, NEXT_ID, handles, account_id, init_bal, poisoned, id, args,
                   acc_first_lock, acc_second_lock, entry, ncalls, wargs>>

\* lines 69-70 and 73-74: the funds check on acc_first; then either
\* acc_first.withdraw(amount) or the message of the else branch.
CheckWithdraw(t) ==
    /\ pc[t] = "check"
    /\ IF account_balance[First(t)] >= args[t].amount
       THEN /\ account_balance' = [account_balance EXCEPT
                                      ![First(t)] = withdraw(@, args[t].amount)]
            /\ pc' = [pc EXCEPT ![t] = "deposit"]
            /\ out' = out
       ELSE /\ account_balance' = account_balance
            /\ pc' = [pc EXCEPT ![t] = "drop"]
            /\ out' = [out EXCEPT ![t] = @ \cup {"insufficient"}]
    /\ UNCHANGED <<mainVars, NEXT_ID, handles, account_id, init_bal, lockVars, id, args,
                   acc_first_lock, acc_second_lock, entry, ncalls, wargs>>

\* lines 71-72: acc_second.deposit(amount), and the success message.
TransferDeposit(t) ==
    /\ pc[t] = "deposit"
    /\ account_balance' = [account_balance EXCEPT
                              ![Second(t)] = deposit(@, args[t].amount)]
    /\ out' = [out EXCEPT ![t] = @ \cup {"success"}]
    /\ pc' = [pc EXCEPT ![t] = "drop"]
    /\ UNCHANGED <<mainVars, NEXT_ID, handles, account_id, init_bal, lockVars, id, args,
                   acc_first_lock, acc_second_lock, entry, ncalls, wargs>>

\* line 76: the function returns; acc_second and acc_first go out of scope
\* and the caller goes on.
TransferReturn(t) ==
    /\ pc[t] = "drop"
    /\ holder' = GuardsDropped(t)
    /\ pc' = [pc EXCEPT ![t] = "idle"]
    /\ LocalsGone(t)
    /\ UNCHANGED <<mainVars, NEXT_ID, acctVars, poisoned, id, args, ncalls, wargs>>

\* The MutexGuards alive in thread t's frame at its position: acc_first from
\* line 60 and acc_second from line 67 to the end of transfer, the guard
\* inside a Poisoned error until unwrap() has panicked, and acc of the
\* worker closure from line 88 to its end.
Guards(t) ==
    (IF pc[t] \in {"try_second", "unwrap_second", "check", "deposit", "drop"}
     THEN {First(t)} ELSE {})
    \cup (IF pc[t] \in {"check", "deposit", "drop"} THEN {Second(t)} ELSE {})
    \cup (IF pc[t] = "unwrap_first" /\ acc_first_lock[t] = "Poisoned"
          THEN {First(t)} ELSE {})
    \cup (IF pc[t] = "unwrap_second" /\ acc_second_lock[t] = "Poisoned"
          THEN {Second(t)} ELSE {})
    \cup (IF pc[t] \in {"w_deposit", "w_withdraw", "w_drop"}
          THEN {wargs[t].account} ELSE {})

TransferStep(t) ==
    \/ TransferCall(t)
    \/ TryLockFirst(t)
    \/ UnwrapFirst(t)
    \/ TryLockSecond(t)
    \/ UnwrapSecond(t)
    \/ CheckWithdraw(t)
    \/ TransferDeposit(t)
    \/ TransferReturn(t)

\* ---- the worker closure of main and of the stress test --------------------

\* lines 86-87: a thread is spawned on a clone of a handle.  main deposits
\* 100 and withdraws 50; the amounts are left open here.
WorkerSpawn(t) ==
    /\ pc[t] = "idle"
    /\ ncalls[t] < MaxCalls
    /\ \E h \in handles, d \in Amounts, w \in Withdrawals :
        wargs' = [wargs EXCEPT ![t] = [account |-> h, dep |-> d, wd |-> w]]
    /\ ncalls' = [ncalls EXCEPT ![t] = @ + 1]
    /\ pc' = [pc EXCEPT ![t] = "w_lock"]
    /\ UNCHANGED <<mainVars, NEXT_ID, acctVars, lockVars, id, args, acc_first_lock,
                   acc_second_lock, entry, out>>

\* line 88: account_clone.lock().unwrap(): blocks while the mutex is owned;
\* on a poisoned mutex the Err carries the guard and unwrap() panics.
WorkerLock(t) ==
    /\ pc[t] = "w_lock"
    /\ holder[wargs[t].account] = NoThread
    /\ IF poisoned[wargs[t].account]
       THEN /\ pc' = [pc EXCEPT ![t] = "panicked"]
            /\ UNCHANGED holder
       ELSE /\ pc' = [pc EXCEPT ![t] = "w_deposit"]
            /\ holder' = [holder EXCEPT ![wargs[t].account] = t]
    /\ UNCHANGED <<mainVars, NEXT_ID, acctVars, poisoned, localVars>>

\* line 89: acc.deposit(..).
WorkerDeposit(t) ==
    /\ pc[t] = "w_deposit"
    /\ account_balance' = [account_balance EXCEPT
                              ![wargs[t].account] = deposit(@, wargs[t].dep)]
    /\ pc' = [pc EXCEPT ![t] = "w_withdraw"]
    /\ UNCHANGED <<mainVars, NEXT_ID, handles, account_id, init_bal, lockVars, localVars>>

\* line 90: acc.withdraw(..), with the message of its else branch (line 42).
WorkerWithdraw(t) ==
    /\ pc[t] = "w_withdraw"
    /\ account_balance' = [account_balance EXCEPT
                              ![wargs[t].account] = withdraw(@, wargs[t].wd)]
    /\ out' = [out EXCEPT ![t] =
                  IF account_balance[wargs[t].account] >= wargs[t].wd
                  THEN @ ELSE @ \cup {"insufficient"}]
    /\ pc' = [pc EXCEPT ![t] = "w_drop"]
    /\ UNCHANGED <<mainVars, NEXT_ID, handles, account_id, init_bal, lockVars, id, args,
                   acc_first_lock, acc_second_lock, entry, ncalls, wargs>>

\* line 92: the closure ends, the guard is dropped, and the thread is joined.
WorkerEnd(t) ==
    /\ pc[t] = "w_drop"
    /\ holder' = GuardsDropped(t)
    /\ pc' = [pc EXCEPT ![t] = "idle"]
    /\ LocalsGone(t)
    /\ UNCHANGED <<mainVars, NEXT_ID, acctVars, poisoned, id, args, ncalls, wargs>>

WorkerStep(t) ==
    \/ WorkerSpawn(t)
    \/ WorkerLock(t)
    \/ WorkerDeposit(t)
    \/ WorkerWithdraw(t)
    \/ WorkerEnd(t)

\* ---- deposit and withdraw called directly (the unit tests) ---------------

\* lines 35-37, called as in deposit_test (line 120): the account's owner
\* calls deposit(amnt).  The log keeps the call and the balance it found.
CallDeposit(h, a) ==
    /\ Len(oplog) < MaxOps
    /\ account_balance' = [account_balance EXCEPT ![h] = deposit(@, a)]
    /\ oplog' = Append(oplog, [account |-> h, kind |-> "deposit", amnt |-> a,
                               before |-> account_balance[h]])
    /\ UNCHANGED <<NEXT_ID, handles, account_id, init_bal, lockVars, pc,
                   localVars, main_pc, iter, join_handles>>

\* lines 38-44, called as in withdraw_success_test and withdraw_fail_test.
CallWithdraw(h, a) ==
    /\ Len(oplog) < MaxOps
    /\ account_balance' = [account_balance EXCEPT ![h] = withdraw(@, a)]
    /\ oplog' = Append(oplog, [account |-> h, kind |-> "withdraw", amnt |-> a,
                               before |-> account_balance[h]])
    /\ UNCHANGED <<NEXT_ID, handles, account_id, init_bal, lockVars, pc,
                   localVars, main_pc, iter, join_handles>>

AcctNext ==
    \/ \E h \in handles, a \in Amounts : CallDeposit(h, a)
    \/ \E h \in handles, a \in Withdrawals : CallWithdraw(h, a)

\* Calls made one at a time on accounts that no thread shares.
AcctSpec == Init /\ [][AcctNext]_vars

\* ---- the spawn loop of main and of high_load_stress_test ------------------

\* The one account of the loop (line 81); only it has been built.
Account == CHOOSE h \in handles : TRUE

\* The loop head `for _ in 0..N` (line 85) after i iterations.
LoopHead(i) == IF i < MaxIter THEN "spawn" ELSE "final"

\* lines 81-84: the shared account is built with some balance, the handle
\* list is empty, and the loop is about to start.
HarnessInit ==
    /\ NEXT_ID = 1
    /\ \E h \in Slots, b \in InitBals :
        /\ handles = {h}
        /\ init_bal = [k \in Slots |-> IF k = h THEN b ELSE 0]
    /\ account_id = [h \in Slots |-> 0]
    /\ account_balance = init_bal
    /\ holder = [h \in Slots |-> NoThread]
    /\ poisoned = [h \in Slots |-> FALSE]
    /\ pc = [t \in Threads |-> "idle"]
    /\ id = [t \in Threads |-> 0]
    /\ args = [t \in Threads |-> NoArgs]
    /\ acc_first_lock = [t \in Threads |-> "none"]
    /\ acc_second_lock = [t \in Threads |-> "none"]
    /\ entry = [t \in Threads |-> NoEntry]
    /\ out = [t \in Threads |-> {}]
    /\ ncalls = [t \in Threads |-> 0]
    /\ wargs = [t \in Threads |-> NoWork]
    /\ main_pc = LoopHead(0)
    /\ iter = 0
    /\ join_handles = {}
    /\ oplog = <<>>

\* A mutant of HarnessSpawn: the drain-and-join loop is after the spawn loop,
\* not inside it.
HarnessSpawnNoJoin(t) ==
    /\ main_pc = "spawn"
    /\ pc[t] = "idle"
    /\ t \notin join_handles
    /\ wargs' = [wargs EXCEPT ![t] = [account |-> Account, dep |-> DepositAmount,
                                      wd |-> WithdrawAmount]]
    /\ pc' = [pc EXCEPT ![t] = "w_lock"]
    /\ join_handles' = join_handles \cup {t}
    /\ iter' = iter + 1
    /\ main_pc' = IF iter + 1 < MaxIter THEN "spawn" ELSE "join"
    /\ UNCHANGED <<NEXT_ID, acctVars, lockVars, id, args, acc_first_lock,
                   acc_second_lock, entry, out, ncalls, oplog>>

\* lines 86-93: one iteration clones the handle, spawns a thread on the
\* closure (deposit 100, withdraw 50) and pushes its JoinHandle.
HarnessSpawn(t) ==
    /\ main_pc = "spawn"
    /\ pc[t] = "idle"
    /\ t \notin join_handles
    /\ wargs' = [wargs EXCEPT ![t] = [account |-> Account, dep |-> DepositAmount,
                                      wd |-> WithdrawAmount]]
    /\ pc' = [pc EXCEPT ![t] = "w_lock"]
    /\ join_handles' = join_handles \cup {t}
    /\ main_pc' = "join"
    /\ UNCHANGED <<NEXT_ID, acctVars, lockVars, id, args, acc_first_lock,
                   acc_second_lock, entry, out, ncalls, iter, oplog>>

\* lines 95-97: handles.drain(..) and handle.join().unwrap(): main waits for
\* the thread to finish; a panicked thread makes join() an Err and unwrap()
\* panics.  With the list drained the iteration is over.
HarnessJoin(t) ==
    /\ main_pc = "join"
    /\ t \in join_handles
    /\ pc[t] \in {"idle", "panicked"}
    /\ join_handles' = join_handles \ {t}
    /\ IF pc[t] = "panicked"
       THEN main_pc' = "panicked" /\ iter' = iter
       ELSE IF join_handles = {t}
       THEN main_pc' = LoopHead(iter + 1) /\ iter' = iter + 1
       ELSE main_pc' = "join" /\ iter' = iter
    /\ UNCHANGED <<NEXT_ID, acctVars, lockVars, pc, localVars, oplog>>

\* lines 99-100 and 185-186: account.lock().unwrap() after the loop, to print
\* or assert the balance.
HarnessFinal ==
    /\ main_pc = "final"
    /\ holder[Account] = NoThread
    /\ main_pc' = IF poisoned[Account] THEN "panicked" ELSE "done"
    /\ UNCHANGED <<NEXT_ID, acctVars, lockVars, pc, localVars, iter,
                   join_handles, oplog>>

\* The worker closure once spawned (WorkerSpawn is the free-standing spawn).
ClosureStep(t) ==
    \/ WorkerLock(t)
    \/ WorkerDeposit(t)
    \/ WorkerWithdraw(t)
    \/ WorkerEnd(t)

HarnessNext ==
    \/ \E t \in Threads : HarnessSpawn(t)
    \/ \E t \in Threads : HarnessJoin(t)
    \/ HarnessFinal
    \/ \E t \in Threads : ClosureStep(t)

HarnessSpec == HarnessInit /\ [][HarnessNext]_vars

Next == \E t \in Threads : TransferStep(t)

Spec == Init /\ [][Next]_vars

NextNew == \E t \in Threads : NewFetchAdd(t) \/ NewBuild(t)

\* Transfers and workers over the constructed accounts.
BankNext == \E t \in Threads : TransferStep(t) \/ WorkerStep(t)

BankSpec == Init /\ [][BankNext]_vars

\* The whole program from its start: accounts are built while calls run.
NewSpec == InitNew /\ [][NextNew \/ Next]_vars

\* A running call goes on until it returns or panics: threads are OS threads,
\* and no step of transfer waits for another thread.
RunStep(t) ==
    \/ TryLockFirst(t)
    \/ UnwrapFirst(t)
    \/ TryLockSecond(t)
    \/ UnwrapSecond(t)
    \/ CheckWithdraw(t)
    \/ TransferDeposit(t)
    \/ TransferReturn(t)

FairSpec == Spec /\ \A t \in Threads : WF_vars(RunStep(t))

\* ---- properties ---------------------------------------------------------

RECURSIVE SumOver(_, _)
SumOver(f, S) ==
    IF S = {} THEN 0
    ELSE LET h == CHOOSE x \in S : TRUE IN f[h] + SumOver(f, S \ {h})

InCall(t) == pc[t] \notin {"idle", "new", "panicked"}
AllEnded == \A t \in Threads : ~InCall(t)
Called(t) == ncalls[t] > 0
Distinct(t) == args[t].sender # args[t].receiver
SelfCall(t) == Called(t) /\ args[t].sender = args[t].receiver

\* C1: once every transfer call has ended, normally or by a panic, the sum of
\* all balances equals the sum the accounts were built with.
C1_Conservation ==
    AllEnded => SumOver(account_balance, Slots) = SumOver(init_bal, Slots)

\* A transfer moved money, another call panicked, and all calls have ended.
C1_Witness ==
    /\ AllEnded
    /\ \E h \in Slots : account_balance[h] # init_bal[h]
    /\ \E t \in Threads : pc[t] = "panicked"

\* C2: a transfer between two distinct accounts whose sender has at least
\* amount ends with the sender down by amount and the receiver up by amount,
\* whichever handle has the lower address.
C2_MovesAmount ==
    \A t \in Threads :
        (pc[t] = "drop" /\ Distinct(t) /\ entry[t].sender >= args[t].amount)
        => /\ account_balance[args[t].sender] = entry[t].sender - args[t].amount
           /\ account_balance[args[t].receiver] = entry[t].receiver + args[t].amount

\* C3: a transfer between two distinct accounts of more than the sender has
\* leaves both balances as they were and reports insufficient funds,
\* whichever handle has the lower address.
C3_InsufficientUnchanged ==
    \A t \in Threads :
        (pc[t] = "drop" /\ Distinct(t) /\ args[t].amount > entry[t].sender)
        => /\ account_balance[args[t].sender] = entry[t].sender
           /\ account_balance[args[t].receiver] = entry[t].receiver
           /\ "insufficient" \in out[t]

\* The lock a thread is about to acquire, if it is at an acquisition.
Wanted(t) ==
    IF pc[t] = "try_first" THEN First(t)
    ELSE IF pc[t] = "try_second" THEN Second(t)
    ELSE 0

\* Thread t waits for thread u: t is at an acquisition it cannot complete,
\* and u owns the lock t wants.
WaitsFor(t, u) ==
    /\ Wanted(t) # 0
    /\ ~ENABLED <<RunStep(t)>>_vars
    /\ holder[Wanted(t)] = u

\* A set of threads each waiting for a member of the set: a wait-for cycle.
NoWaitCycle ==
    \A S \in SUBSET Threads :
        S # {} => \E t \in S : \A u \in S : ~WaitsFor(t, u)

\* C4: no reachable state has a cycle of threads each waiting for a lock the
\* next one holds, and every transfer call that started eventually ends.
C4_DeadlockFree ==
    /\ []NoWaitCycle
    /\ \A t \in Threads : InCall(t) ~> ~InCall(t)

\* Two calls on the same pair in reversed argument order are both past
\* their first acquisition attempt, one holding the lower-address lock.
C4_Witness ==
    \E t \in Threads, u \in Threads :
        /\ t # u
        /\ Distinct(t)
        /\ args[u].sender = args[t].receiver
        /\ args[u].receiver = args[t].sender
        /\ pc[t] = "try_second"
        /\ pc[u] = "unwrap_first"

\* transfer run alone (lines 50-75, no other thread, both try_lock Ok): the
\* balances after the call c = (sender, receiver, amount) on balances bal.
TransferAlone(bal, c) ==
    LET f == t_first(c.sender, c.receiver)
        g == t_second(c.sender, c.receiver)
    IN  IF bal[f] >= c.amount
        THEN [[bal EXCEPT ![f] = withdraw(@, c.amount)]
                   EXCEPT ![g] = deposit(@, c.amount)]
        ELSE bal

\* The calls of the threads order[1], order[2], ... run one after another.
RECURSIVE RunInOrder(_, _)
RunInOrder(bal, order) ==
    IF order = <<>> THEN bal
    ELSE RunInOrder(TransferAlone(bal, args[Head(order)]), Tail(order))

Callers == {t \in Threads : Called(t)}

Orders(S) ==
    {o \in [1..Cardinality(S) -> S] : \A i, j \in 1..Cardinality(S) : o[i] = o[j] => i = j}

SamePair ==
    \A t \in Callers, u \in Callers :
        /\ Distinct(t)
        /\ {args[t].sender, args[t].receiver} = {args[u].sender, args[u].receiver}

\* C5: when calls on one account pair were run concurrently, one by each
\* thread, and all have ended, the balances are those of running the same
\* calls one after another in some order.
C5_Serializable ==
    (AllEnded /\ SamePair /\ \A t \in Threads : ncalls[t] <= 1)
    => \E o \in Orders(Callers) : account_balance = RunInOrder(init_bal, o)

\* C6: a try_lock that fails because another thread owns the lock is followed
\* by a warning but not by a fatal error of the call, and no lock is left
\* held or poisoned by it.
C6_ContentionNotFatal ==
    [][\A t \in Threads :
        (/\ Distinct(t)
         /\ \/ pc[t] = "unwrap_first" /\ acc_first_lock[t] = "WouldBlock"
            \/ pc[t] = "unwrap_second" /\ acc_second_lock[t] = "WouldBlock"
         /\ pc'[t] # pc[t])
        => /\ out[t] \cap {"warn_first", "warn_second"} # {}
           /\ pc'[t] # "panicked"
           /\ poisoned'[First(t)] = poisoned[First(t)]
           /\ poisoned'[Second(t)] = poisoned[Second(t)]]_vars

\* C7: a transfer whose sender and receiver are the same handle makes no
\* second acquisition attempt on that mutex, and ends by returning with the
\* balance unchanged, the lock not owned and not poisoned by it.
C7_SelfTransferNoOp ==
    [][\A t \in Threads :
        (InCall(t) /\ SelfCall(t) /\ pc'[t] # pc[t])
        => /\ acc_second_lock'[t] = "none"
           /\ account_balance'[args[t].sender] = account_balance[args[t].sender]
           /\ ~InCall(t)' => /\ pc'[t] = "idle"
                             /\ holder'[args[t].sender] # t
                             /\ poisoned'[args[t].sender] = poisoned[args[t].sender]]_vars

\* C8: a thread whose transfer call has ended, by success, by insufficient
\* funds or by a failed acquisition of the first or second lock, owns no lock.
C8_LocksReleased ==
    \A t \in Threads : ~InCall(t) => \A h \in Slots : holder[h] # t

\* A call has ended by a panic that dropped a held guard (the mutex is
\* poisoned and free) and another call has returned.
C8_Witness ==
    /\ \E t \in Threads : pc[t] = "panicked"
    /\ \E t \in Threads : pc[t] = "idle" /\ Called(t)
    /\ \E h \in Slots : poisoned[h] /\ holder[h] = NoThread

\* C9: with non-negative initial balances and positive amounts, no account
\* balance is negative in any reachable state of concurrent transfers,
\* deposits and withdrawals.
C9_NonNegative == \A h \in Slots : account_balance[h] >= 0

\* A withdraw call has just refused an amount above the balance, after a
\* transfer call of another thread ended.
C9_Witness ==
    \E t \in Threads, u \in Threads :
        /\ pc[t] = "w_drop" /\ "insufficient" \in out[t]
        /\ pc[u] = "idle" /\ Called(u) /\ args[u] # NoArgs
        /\ account_balance[wargs[t].account] < wargs[t].wd

\* C10: the account ids handed out by concurrent BankAccount::new calls are
\* pairwise distinct, those of calls still running included.
C10_UniqueIds ==
    /\ \A h, k \in handles : account_id[h] = account_id[k] => h = k
    /\ \A t \in Threads : pc[t] = "new" =>
          /\ \A h \in handles : account_id[h] # id[t]
          /\ \A u \in Threads : (pc[u] = "new" /\ id[u] = id[t]) => u = t

\* Two calls overlapped (both had fetched an id before either built its
\* account) and both accounts now exist.
C10_Witness ==
    /\ Cardinality(handles) >= 2
    /\ \E h, k \in handles : h < k /\ account_id[h] > account_id[k]

\* The calls logged for account h, in order.
OpsOn(h) == SelectSeq(oplog, LAMBDA o : o.account = h)

RECURSIVE SumDeposits(_)
SumDeposits(log) ==
    IF log = <<>> THEN 0
    ELSE (IF Head(log).kind = "deposit" THEN Head(log).amnt ELSE 0)
         + SumDeposits(Tail(log))

\* A withdrawal counts when its amount is at most the balance it found.
RECURSIVE SumSuccessfulWithdrawals(_)
SumSuccessfulWithdrawals(log) ==
    IF log = <<>> THEN 0
    ELSE (IF Head(log).kind = "withdraw" /\ Head(log).amnt <= Head(log).before
          THEN Head(log).amnt ELSE 0)
         + SumSuccessfulWithdrawals(Tail(log))

\* C12: after any sequence of deposit and withdraw calls made one at a time
\* on an account, its balance is the initial balance plus the deposits minus
\* the withdrawals whose amount was at most the balance at their moment.
C12_Accounting ==
    \A h \in Slots :
        account_balance[h] = init_bal[h] + SumDeposits(OpsOn(h))
                             - SumSuccessfulWithdrawals(OpsOn(h))

\* An account has seen a deposit, a withdrawal that went through and one
\* that was refused.
C12_Witness ==
    \E h \in Slots :
        /\ \E i \in 1..Len(oplog) : oplog[i].account = h /\ oplog[i].kind = "deposit"
        /\ \E i \in 1..Len(oplog) :
              /\ oplog[i].account = h /\ oplog[i].kind = "withdraw"
              /\ oplog[i].amnt <= oplog[i].before
        /\ \E i \in 1..Len(oplog) :
              /\ oplog[i].account = h /\ oplog[i].kind = "withdraw"
              /\ oplog[i].amnt > oplog[i].before

LastOp == oplog[Len(oplog)]

\* C13: a withdraw of more than the balance leaves the balance as it was,
\* and a withdraw that changes the balance never leaves it below zero.
C13_WithdrawRefusal ==
    (oplog # <<>> /\ LastOp.kind = "withdraw")
    => /\ LastOp.amnt > LastOp.before
            => account_balance[LastOp.account] = LastOp.before
       /\ account_balance[LastOp.account] # LastOp.before
            => account_balance[LastOp.account] >= 0

\* The last call was a withdraw of more than the balance, on an account that
\* has money.
C13_Witness ==
    /\ oplog # <<>>
    /\ LastOp.kind = "withdraw"
    /\ LastOp.amnt > LastOp.before
    /\ LastOp.before > 0

WorkerAlive(t) == pc[t] \in {"w_lock", "w_deposit", "w_withdraw", "w_drop"}

C20_OneWorkerAtATime ==
    /\ Cardinality({t \in Threads : WorkerAlive(t)}) <= 1
    /\ Cardinality(join_handles) <= 1
    /\ \A t \in Threads : pc[t] = "w_lock" => holder[wargs[t].account] = NoThread
    /\ main_pc = "final" => holder[Account] = NoThread

\* A worker of a later iteration owns the lock while main waits in join().
C20_Witness ==
    /\ iter >= 1
    /\ main_pc = "join"
    /\ \E t \in Threads : pc[t] = "w_withdraw" /\ holder[Account] = t

\* Each account's guard is in at most one thread's hands, and that thread is
\* the owner the mutex records.
MutexExclusive ==
    \A h \in Slots :
        /\ Cardinality({t \in Threads : h \in Guards(t)}) <= 1
        /\ \A t \in Threads : h \in Guards(t) => holder[h] = t

\* C14: each account's lock has at most one holder in every reachable state,
\* and every step that changes an account's balance is taken by the thread
\* holding that account's lock.
C14_MutualExclusion ==
    /\ []MutexExclusive
    /\ [][\A h \in Slots :
            account_balance'[h] # account_balance[h]
            => \E t \in Threads :
                  /\ pc'[t] # pc[t]
                  /\ holder[h] = t
                  /\ h \in Guards(t)]_vars

\* A transfer is between its withdraw and its deposit while a worker waits at
\* lock() for one of its accounts.
C14_Witness ==
    \E t \in Threads, u \in Threads :
        /\ pc[t] = "deposit"
        /\ pc[u] = "w_lock"
        /\ wargs[u].account \in Guards(t)

\* C15: a transfer that tries a poisoned lock gets the Poisoned error, goes
\* no further than unwrap(), ends there by a panic, and changes no balance.
C15_PoisonedIsFatal ==
    [][\A t \in Threads :
        pc'[t] # pc[t] =>
          /\ (pc[t] = "try_first" /\ poisoned[First(t)] /\ holder[First(t)] = NoThread)
                => pc'[t] = "unwrap_first" /\ account_balance' = account_balance
          /\ (pc[t] = "try_second" /\ poisoned[Second(t)] /\ holder[Second(t)] = NoThread)
                => pc'[t] = "unwrap_second" /\ account_balance' = account_balance
          /\ (\/ pc[t] = "unwrap_first" /\ acc_first_lock[t] = "Poisoned"
              \/ pc[t] = "unwrap_second" /\ acc_second_lock[t] = "Poisoned")
                => pc'[t] = "panicked" /\ account_balance' = account_balance]_vars

\* A transfer holds its first lock and has found its second one poisoned.
C15_Witness ==
    \E t \in Threads :
        /\ pc[t] = "unwrap_second"
        /\ acc_second_lock[t] = "Poisoned"
        /\ poisoned[Second(t)]

LowerOf(t) == IF args[t].sender <= args[t].receiver THEN args[t].sender ELSE args[t].receiver
HigherOf(t) == IF args[t].sender <= args[t].receiver THEN args[t].receiver ELSE args[t].sender

\* C16: a transfer tries the lock of the lower-address handle first and the
\* other one second, whichever was passed as sender, and no thread owns a
\* higher-address lock while about to try a lower-address one.
C16_LockOrder ==
    \A t \in Threads :
        /\ pc[t] = "try_first" => Wanted(t) = LowerOf(t)
        /\ pc[t] = "try_second" => Wanted(t) = HigherOf(t) /\ holder[LowerOf(t)] = t
        /\ Wanted(t) # 0 => \A h \in Slots : holder[h] = t => h <= Wanted(t)

\* A call whose sender has the higher address owns the receiver's lock and
\* is about to try the sender's.
C16_Witness ==
    \E t \in Threads :
        /\ pc[t] = "try_second"
        /\ args[t].sender > args[t].receiver
        /\ holder[args[t].receiver] = t
        /\ Wanted(t) = args[t].sender

InCritical(t) == pc[t] \in {"check", "deposit", "drop"}
EntryOf(t, h) == IF h = args[t].sender THEN entry[t].sender ELSE entry[t].receiver
BothPre(t) ==
    /\ account_balance[First(t)] = EntryOf(t, First(t))
    /\ account_balance[Second(t)] = EntryOf(t, Second(t))
BothPost(t) ==
    /\ account_balance[First(t)] = EntryOf(t, First(t)) - args[t].amount
    /\ account_balance[Second(t)] = EntryOf(t, Second(t)) + args[t].amount
HoldsBoth(t) == holder[First(t)] = t /\ holder[Second(t)] = t

\* C17: while a transfer between two accounts is in its critical section the
\* two balances are both as on entry or both as after the transfer, unless
\* the transferring thread owns both locks; the state between withdraw and
\* deposit exists only then.
C17_NoPartialObserved ==
    \A t \in Threads :
        (InCritical(t) /\ Distinct(t))
        => /\ BothPre(t) \/ BothPost(t) \/ HoldsBoth(t)
           /\ pc[t] = "deposit" => HoldsBoth(t)

\* The amount has left one account and not reached the other, and another
\* thread is waiting at lock() for one of the two.
C17_Witness ==
    \E t \in Threads, u \in Threads :
        /\ pc[t] = "deposit"
        /\ Distinct(t)
        /\ ~BothPre(t)
        /\ ~BothPost(t)
        /\ pc[u] = "w_lock"
        /\ wargs[u].account \in {First(t), Second(t)}

\* C18: a transfer call panics only at the unwrap() of a failed first or
\* second acquisition, before it has entered its critical section, and no
\* step of the call up to there changes a balance.
C18_AbortChangesNothing ==
    [][\A t \in Threads :
        pc'[t] # pc[t] =>
          /\ pc'[t] = "panicked"
                => pc[t] \in {"unwrap_first", "unwrap_second"} /\ entry[t] = NoEntry
          /\ pc[t] \in {"try_first", "unwrap_first", "try_second", "unwrap_second"}
                => account_balance' = account_balance]_vars

\* A call has ended at the unwrap() of its second lock: its first mutex is
\* poisoned, and every balance is as the accounts were built.
C18_Witness ==
    \E t \in Threads :
        /\ pc[t] = "panicked"
        /\ Distinct(t)
        /\ poisoned[First(t)]
        /\ ~poisoned[Second(t)]
        /\ account_balance = init_bal

LockResults == {"none", "Ok", "WouldBlock", "Poisoned"}
Positions == {"idle", "new", "try_first", "unwrap_first", "try_second",
              "unwrap_second", "check", "deposit", "drop", "panicked",
              "w_lock", "w_deposit", "w_withdraw", "w_drop"}

TypeOK ==
    /\ NEXT_ID \in 0..NumSlots
    /\ handles \subseteq Slots
    /\ account_id \in [Slots -> 0..NumSlots]
    /\ account_balance \in [Slots -> Int]
    /\ init_bal \in [Slots -> InitBals]
    /\ holder \in [Slots -> Threads \cup {NoThread}]
    /\ poisoned \in [Slots -> BOOLEAN]
    /\ pc \in [Threads -> Positions]
    /\ ncalls \in [Threads -> 0..MaxCalls]
    /\ main_pc \in {"none", "spawn", "join", "final", "done", "panicked"}
    /\ iter \in 0..MaxIter
    /\ join_handles \subseteq Threads
    /\ Len(oplog) <= MaxOps
    /\ \A t \in Threads :
        /\ acc_first_lock[t] \in LockResults
        /\ acc_second_lock[t] \in LockResults
        /\ out[t] \subseteq {"warn_first", "warn_second", "success", "insufficient"}
        /\ args[t] = NoArgs \/ (args[t].sender \in Slots /\ args[t].receiver \in Slots
                                /\ args[t].amount \in Amounts)
====
